---- MODULE Spec2Model ----
(***************************************************************************)
(* Model of the Multimodal RAG Workbench client:                           *)
(*   - ChatAPI.streamChat, the SSE frame decoder      (src/src/api/chat.ts)*)
(*   - MessageBubble.renderContent, the citation resolver                  *)
(*                                  (src/src/components/MessageBubble.tsx) *)
(*   - the App component's handlers: handleSend, handleStop, the upload    *)
(*     handlers and processPDF                           (src/src/App.tsx) *)
(* Text is modelled as sequences of one-character strings.                 *)
(***************************************************************************)
EXTENDS Integers, Sequences, FiniteSets, TLC

VARIABLES
    \* ---- ChatAPI.streamChat (one run of the generator)
    wire,        \* the whole response body, as the server wrote it
    rpos,        \* number of characters reader.read() has delivered so far
    buffer,      \* `let buffer` (chat.ts:123)
    yielded,     \* the frames the generator has yielded, in order
    gen,         \* "idle" | "reading" | "done"
    midCut,      \* history: some chunk ended in the middle of a line
    \* ---- MessageBubble.renderContent (one text block of one message)
    rtext,       \* block.content
    rrefs,       \* message.references: [present, list]
    rendered,    \* the elements processContent() returned; <<>> before rendering
    clicked,     \* the last click: [idx, calls], calls = arguments given to onReferenceClick
    \* ---- App (src/src/App.tsx): React state and the asynchronous handlers in flight
    now,             \* the last reading of Date.now()
    inputValue,      \* useState("") (App.tsx:43)
    messages,        \* useState<Message[]>([]) (App.tsx:44)
    isStreaming,     \* useState(false) (App.tsx:45)
    toast,           \* useState<ToastMessage | null>(null) (App.tsx:49)
    pendingImages,   \* App.tsx:93
    pendingPDFs,     \* App.tsx:101
    pendingAudios,   \* App.tsx:115
    pdfProcessing,   \* App.tsx:125
    sends,           \* the invocations of handleSend, in order; each keeps its locals
    jobs,            \* the invocations of processPDF that have not returned
    imageReads,      \* files whose FileReader (handleUploadImage) has not fired onload
    audioRequests,   \* files whose /api/audio/process request is in flight
    sendResult,      \* history: what the last call of handleSend did
    uploads          \* history: the number of files handed to the upload handlers

decVars == <<wire, rpos, buffer, yielded, gen, midCut>>

refVars == <<rtext, rrefs, rendered, clicked>>

appVars == <<now, inputValue, messages, isStreaming, toast, pendingImages, pendingPDFs,
             pendingAudios, pdfProcessing, sends, jobs, imageReads, audioRequests, sendResult, uploads>>

vars == <<wire, rpos, buffer, yielded, gen, midCut, rtext, rrefs, rendered, clicked,
          now, inputValue, messages, isStreaming, toast, pendingImages, pendingPDFs,
          pendingAudios, pdfProcessing, sends, jobs, imageReads, audioRequests, sendResult, uploads>>

(***************************************************************************)
(* Bounds                                                                  *)
(***************************************************************************)
MaxLines == 3      \* lines in one response body
MaxChunk == 12     \* longest chunk one reader.read() delivers (a data line is 10 long)
MaxText == 6       \* characters in a rendered text block
MaxRefs == 2       \* references attached to the rendered message
MaxNow == 2        \* last clock tick at which a handler starts
MaxSends == 2      \* invocations of handleSend that pass its guard
MaxDeltas == 2     \* content_delta frames the chat streams deliver, all together
MaxUploads == 1     \* files the user hands to the upload handlers, all together

(***************************************************************************)
(* The parts of the state a specification does not exercise stay idle.     *)
(***************************************************************************)
DecoderIdle ==
    /\ wire = <<>> /\ rpos = 0 /\ buffer = <<>> /\ yielded = <<>>
    /\ gen = "idle" /\ midCut = FALSE

NoClick == [idx |-> 0, calls |-> <<>>]

RefsIdle ==
    /\ rtext = <<>> /\ rrefs = [present |-> FALSE, list |-> <<>>]
    /\ rendered = <<>> /\ clicked = NoClick

NoToast == [type |-> "none", about |-> ""]

AppIdle ==
    /\ now = 0
    /\ inputValue = <<>>
    /\ messages = <<>>
    /\ isStreaming = FALSE
    /\ toast = NoToast
    /\ pendingImages = <<>>
    /\ pendingPDFs = <<>>
    /\ pendingAudios = <<>>
    /\ pdfProcessing = [isProcessing |-> FALSE, progress |-> 0]
    /\ sends = <<>>
    /\ jobs = <<>>
    /\ imageReads = <<>>
    /\ audioRequests = <<>>
    /\ sendResult = "none"
    /\ uploads = 0

(***************************************************************************)
(* Strings as character sequences                                          *)
(***************************************************************************)
NL == "\n"

DataPrefix == <<"d", "a", "t", "a", ":", " ">>

\* String.prototype.startsWith
StartsWith(s, p) == Len(s) >= Len(p) /\ SubSeq(s, 1, Len(p)) = p

\* String.prototype.slice(n)
Slice(s, n) == SubSeq(s, n + 1, Len(s))

\* String.prototype.split(sep) for a one-character separator: always at least
\* one part, the last part being what follows the last separator.
RECURSIVE SplitFrom(_, _, _)
SplitFrom(s, sep, cur) ==
    IF s = <<>> THEN <<cur>>
    ELSE IF Head(s) = sep THEN <<cur>> \o SplitFrom(Tail(s), sep, <<>>)
    ELSE SplitFrom(Tail(s), sep, Append(cur, Head(s)))

Split(s, sep) == SplitFrom(s, sep, <<>>)

(***************************************************************************)
(* JSON payloads.  A payload is the text after "data: ".  The payloads the *)
(* server can write are drawn from a small language: {t} is an object      *)
(* whose type is t; anything else is what JSON.parse makes of it.          *)
(***************************************************************************)
NoFrame == [type |-> "none", content |-> ""]

\* JSON.parse followed by the property reads of chat.ts:144 (data.type,
\* data.content?.substring): ok = FALSE when either throws.
JsonParse(p) ==
    IF Len(p) = 3 /\ p[1] = "{" /\ p[3] = "}"
    THEN CASE p[2] = "a" -> [ok |-> TRUE, data |-> [type |-> "content_delta", content |-> "a"]]
           [] p[2] = "b" -> [ok |-> TRUE, data |-> [type |-> "content_delta", content |-> "b"]]
           [] p[2] = "m" -> [ok |-> TRUE, data |-> [type |-> "message_complete", content |-> ""]]
           [] p[2] = "e" -> [ok |-> TRUE, data |-> [type |-> "error", content |-> ""]]
           [] p[2] = "u" -> [ok |-> TRUE, data |-> [type |-> "unknown", content |-> ""]]
           [] OTHER      -> [ok |-> FALSE, data |-> NoFrame]
    ELSE [ok |-> FALSE, data |-> NoFrame]   \* SyntaxError, or TypeError on null.type

IsCompletion(f) == f.type = "message_complete"

\* data.type === 'message_complete' || data.type === 'error' (chat.ts:149)
IsTerminal(f) == f.type = "message_complete" \/ f.type = "error"

(***************************************************************************)
(* ChatAPI.streamChat: the read loop (chat.ts:122-157)                     *)
(***************************************************************************)
\* A parse failure inside the try of chat.ts:142-154: the catch logs and the
\* for loop goes on to the next line.
ParseFailureAborts == [yield |-> <<>>, ret |-> TRUE]

OnParseFailure == [yield |-> <<>>, ret |-> FALSE]

\* One iteration of `for (const line of lines)`: what it yields and whether
\* the generator returns (chat.ts:140-156).
HandleLine(line) ==
    IF StartsWith(line, DataPrefix)
    THEN LET r == JsonParse(Slice(line, 6))
         IN  IF r.ok
             THEN [yield |-> <<r.data>>, ret |-> IsTerminal(r.data)]
             ELSE OnParseFailure
    ELSE [yield |-> <<>>, ret |-> FALSE]

RECURSIVE LineLoop(_, _)
LineLoop(lines, out) ==
    IF lines = <<>> THEN [frames |-> out, returned |-> FALSE]
    ELSE LET h == HandleLine(Head(lines))
         IN  IF h.ret THEN [frames |-> out \o h.yield, returned |-> TRUE]
             ELSE LineLoop(Tail(lines), out \o h.yield)

\* `buffer = lines.pop() || ''` (chat.ts:138): the part after the last newline.
ResidualDropped(lines) == <<>>

Residual(lines) == lines[Len(lines)]

\* The complete lines that remain after lines.pop().
CompleteLines(lines) == SubSeq(lines, 1, Len(lines) - 1)

\* The body of the while loop for one chunk (chat.ts:133-156), from a given
\* residual buffer: the new buffer, the frames yielded, whether it returned.
StreamChunk(buf, chunk) ==
    LET lines == Split(buf \o chunk, NL)
        r     == LineLoop(CompleteLines(lines), <<>>)
    IN  [buffer |-> Residual(lines), frames |-> r.frames, returned |-> r.returned]

\* The lines a server can write (without their newline).
LineKinds ==
    { DataPrefix \o <<"{", "a", "}">>,                  \* content_delta "a"
      DataPrefix \o <<"{", "b", "}">>,                  \* content_delta "b"
      DataPrefix \o <<"{", "m", "}">>,                  \* message_complete
      DataPrefix \o <<"{", "e", "}">>,                  \* error
      DataPrefix \o <<"{", "a">>,                       \* truncated JSON
      DataPrefix \o <<"[", "D", "O", "N", "E", "]">>,   \* the end sentinel
      <<>> }                                            \* the blank line between records

RECURSIVE LineSeqs(_)
LineSeqs(n) ==
    IF n = 0 THEN {<<>>}
    ELSE LET shorter == LineSeqs(n - 1)
         IN  shorter \cup {Append(ls, k) : ls \in {x \in shorter : Len(x) = n - 1}, k \in LineKinds}

\* The text of a sequence of lines, each newline-terminated except, when
\* `terminated` is false, the last one.
RECURSIVE TextOf(_, _)
TextOf(ls, terminated) ==
    IF ls = <<>> THEN <<>>
    ELSE IF Len(ls) = 1 THEN Head(ls) \o (IF terminated THEN <<NL>> ELSE <<>>)
    ELSE Head(ls) \o <<NL>> \o TextOf(Tail(ls), terminated)

InitDecoder ==
    /\ RefsIdle
    /\ AppIdle
    /\ \E ls \in LineSeqs(MaxLines), t \in BOOLEAN : wire = TextOf(ls, t)
    /\ rpos = 0
    /\ buffer = <<>>
    /\ yielded = <<>>
    /\ gen = "reading"
    /\ midCut = FALSE

\* reader.read() resolves with a chunk of n characters (chat.ts:126-156).
Read(n) ==
    /\ gen = "reading"
    /\ rpos + n <= Len(wire)
    /\ LET r == StreamChunk(buffer, SubSeq(wire, rpos + 1, rpos + n))
       IN  /\ buffer' = r.buffer
           /\ yielded' = yielded \o r.frames
           /\ gen' = IF r.returned THEN "done" ELSE "reading"
    /\ rpos' = rpos + n
    /\ midCut' = (midCut \/ (rpos + n < Len(wire) /\ wire[rpos + n] # NL))
    /\ UNCHANGED wire
    /\ UNCHANGED <<refVars, appVars>>

\* reader.read() resolves with done (chat.ts:128-131): the loop breaks and
\* the generator returns; the residual buffer is not looked at.
ReadDone ==
    /\ gen = "reading"
    /\ rpos = Len(wire)
    /\ gen' = "done"
    /\ UNCHANGED <<wire, rpos, buffer, yielded, midCut>>
    /\ UNCHANGED <<refVars, appVars>>

NextDecoder ==
    \/ \E n \in 1..MaxChunk : Read(n)
    \/ ReadDone

SpecDecoder == InitDecoder /\ [][NextDecoder]_vars

\* The frames of the body delivered as one single chunk.
DecodeUnsplit(w) == StreamChunk(<<>>, w).frames

\* C1: whatever the chunk boundaries, a finished run of streamChat has
\* yielded exactly the frames that the unsplit body yields, in that order.
C1_ChunkingInvariant == gen = "done" => yielded = DecodeUnsplit(wire)

\* A finished run in which a chunk ended in the middle of a line and at
\* least two frames were yielded.
C1_Witness == gen = "done" /\ midCut /\ Len(yielded) >= 2

\* The complete (newline-terminated) lines of the body, as the server wrote them.
WireLines == CompleteLines(Split(wire, NL))

IsDataLine(l) == StartsWith(l, DataPrefix)

IsMalformedLine(l) == IsDataLine(l) /\ ~JsonParse(Slice(l, 6)).ok

FrameOfLine(l) == JsonParse(Slice(l, 6)).data

IsFrameLine(l) == IsDataLine(l) /\ JsonParse(Slice(l, 6)).ok

IsTerminalLine(l) == IsFrameLine(l) /\ IsTerminal(FrameOfLine(l))

\* Line i is malformed, its two neighbours are valid non-terminal frames and
\* no terminal frame precedes them.
MalformedBetweenValid(i) ==
    /\ i \in 2..(Len(WireLines) - 1)
    /\ IsMalformedLine(WireLines[i])
    /\ IsFrameLine(WireLines[i - 1]) /\ ~IsTerminalLine(WireLines[i - 1])
    /\ IsFrameLine(WireLines[i + 1]) /\ ~IsTerminalLine(WireLines[i + 1])
    /\ \A j \in 1..(i - 2) : ~IsTerminalLine(WireLines[j])

\* C2: a malformed data line between two valid non-terminal frames is dropped:
\* both neighbours are yielded, next to each other, and no error frame is
\* yielded that the server did not write.
C2_MalformedLineSkipped ==
    gen = "done" =>
        /\ \A i \in 1..Len(WireLines) :
              MalformedBetweenValid(i) =>
                  \E k \in 1..(Len(yielded) - 1) :
                      /\ yielded[k] = FrameOfLine(WireLines[i - 1])
                      /\ yielded[k + 1] = FrameOfLine(WireLines[i + 1])
        /\ \A k \in 1..Len(yielded) :
              yielded[k].type = "error" =>
                  \E j \in 1..Len(WireLines) :
                      IsFrameLine(WireLines[j]) /\ FrameOfLine(WireLines[j]).type = "error"

\* A finished run over a body that holds a malformed line between two valid
\* frames, read in chunks that cut a line.
C2_Witness ==
    gen = "done" /\ midCut /\ \E i \in 1..Len(WireLines) : MalformedBetweenValid(i)

(***************************************************************************)
(* MessageBubble.renderContent, case 'text' (MessageBubble.tsx:76-191)     *)
(***************************************************************************)
Digits == {"0", "1", "2"}

TextChars == {"[", "]", "x"} \cup Digits

\* Number of consecutive digits of s from position i on.
RECURSIVE DigitRun(_, _)
DigitRun(s, i) ==
    IF i <= Len(s) /\ s[i] \in Digits THEN 1 + DigitRun(s, i + 1) ELSE 0

\* The regular expression \[\d+\] tried at position q: the position of the
\* closing bracket, or 0 when it does not match there.
MatchAt(s, q) ==
    IF q <= Len(s) /\ s[q] = "["
    THEN LET d == DigitRun(s, q + 1)
         IN  IF d >= 1 /\ q + 1 + d <= Len(s) /\ s[q + 1 + d] = "]"
             THEN q + 1 + d ELSE 0
    ELSE 0

\* block.content.split(/(\[\d+\])/g): the text before each match, the match
\* itself (the capture group), and the text after the last match.
RECURSIVE SplitScan(_, _, _)
SplitScan(s, p, q) ==
    IF q > Len(s) THEN <<SubSeq(s, p, Len(s))>>
    ELSE LET e == MatchAt(s, q)
         IN  IF e = 0 THEN SplitScan(s, p, q + 1)
             ELSE <<SubSeq(s, p, q - 1), SubSeq(s, q, e)>> \o SplitScan(s, e + 1, e + 1)

SplitMarkers(s) == SplitScan(s, 1, 1)

\* part.match(/\[(\d+)\]/): the first match anywhere in the part, as
\* [found, digits] where digits is the capture group.
RECURSIVE MatchFrom(_, _)
MatchFrom(part, q) ==
    IF q > Len(part) THEN [found |-> FALSE, digits |-> <<>>]
    ELSE LET e == MatchAt(part, q)
         IN  IF e = 0 THEN MatchFrom(part, q + 1)
             ELSE [found |-> TRUE, digits |-> SubSeq(part, q + 1, e - 1)]

MatchMarker(part) == MatchFrom(part, 1)

DigitValue(c) == CASE c = "0" -> 0 [] c = "1" -> 1 [] c = "2" -> 2

\* parseInt on a string of decimal digits.
RECURSIVE ParseInt(_)
ParseInt(ds) ==
    IF ds = <<>> THEN 0
    ELSE 10 * ParseInt(SubSeq(ds, 1, Len(ds) - 1)) + DigitValue(ds[Len(ds)])

\* `const refIndex = parseInt(match[1]) - 1` (MessageBubble.tsx:85), the
\* 0-based index into message.references.
RefIndexNoOffset(ds) == ParseInt(ds)

RefIndex(ds) == ParseInt(ds) - 1

\* The element made for one part (MessageBubble.tsx:81-181).
\*   tag: "sup" (ReferenceSuperscript), "markdown" or "span"
\*   handler: what its onClick does: "onReferenceClick" | "log" | "none"
\*   ref: the reference the handler passes on ("" when none)
\*   dimmed: className "opacity-50 cursor-not-allowed"
RenderPart(part, refs) ==
    LET m == MatchMarker(part)
    IN  IF m.found
        THEN LET idx == RefIndex(m.digits)
             IN  IF refs.present /\ Len(refs.list) > 0 /\ idx >= 0 /\ idx < Len(refs.list)
                 THEN [tag |-> "sup", text |-> part, number |-> m.digits,
                       handler |-> "onReferenceClick", ref |-> refs.list[idx + 1],
                       dimmed |-> FALSE]
                 ELSE [tag |-> "sup", text |-> part, number |-> m.digits,
                       handler |-> "log", ref |-> "", dimmed |-> TRUE]
        ELSE [tag |-> IF part # <<>> THEN "markdown" ELSE "span", text |-> part,
              number |-> <<>>, handler |-> "none", ref |-> "", dimmed |-> FALSE]

ProcessContent(text, refs) ==
    LET parts == SplitMarkers(text)
    IN  [i \in 1..Len(parts) |-> RenderPart(parts[i], refs)]

RECURSIVE TextsUpTo(_)
TextsUpTo(n) ==
    IF n = 0 THEN {<<>>}
    ELSE LET shorter == TextsUpTo(n - 1)
         IN  shorter \cup {Append(t, c) : t \in {x \in shorter : Len(x) = n - 1}, c \in TextChars}

RefName(i) == CASE i = 1 -> "ref1" [] i = 2 -> "ref2" [] i = 3 -> "ref3" [] OTHER -> "refN"

\* message.references: absent (user messages, error messages) or a list.
RefLists ==
    {[present |-> FALSE, list |-> <<>>]}
        \cup {[present |-> TRUE, list |-> [i \in 1..n |-> RefName(i)]] : n \in 0..MaxRefs}

InitRefs ==
    /\ DecoderIdle
    /\ AppIdle
    /\ rtext \in TextsUpTo(MaxText)
    /\ rrefs \in RefLists
    /\ rendered = <<>>
    /\ clicked = NoClick

\* React renders the block.
Render ==
    /\ rendered = <<>>
    /\ rendered' = ProcessContent(rtext, rrefs)
    /\ UNCHANGED <<rtext, rrefs, clicked>>
    /\ UNCHANGED <<decVars, appVars>>

\* The user clicks (or presses Enter on) the i-th element, a superscript
\* (ReferenceSuperscript.tsx:17-25).
ClickElement(i) ==
    /\ i \in 1..Len(rendered)
    /\ rendered[i].tag = "sup"
    /\ clicked' = [idx |-> i,
                   calls |-> IF rendered[i].handler = "onReferenceClick"
                             THEN <<rendered[i].ref>> ELSE <<>>]
    /\ UNCHANGED <<rtext, rrefs, rendered>>
    /\ UNCHANGED <<decVars, appVars>>

NextRefs ==
    \/ Render
    \/ \E i \in 1..(MaxText + 1) : ClickElement(i)

SpecRefs == InitRefs /\ [][NextRefs]_vars

\* A marker [k] occupies positions q..e of the text: a bracket, one or more
\* digits, a bracket.
IsMarkerAt(s, q, e) ==
    /\ 1 <= q /\ q + 1 < e /\ e <= Len(s)
    /\ s[q] = "[" /\ s[e] = "]"
    /\ \A i \in (q + 1)..(e - 1) : s[i] \in Digits

\* The decimal value of the digits inside the marker at q..e.
RECURSIVE DecimalValue(_, _, _)
DecimalValue(s, from, to) ==
    IF from > to THEN 0
    ELSE 10 * DecimalValue(s, from, to - 1)
            + (CASE s[to] = "0" -> 0 [] s[to] = "1" -> 1 [] s[to] = "2" -> 2)

\* Position in the text of the first character of element i.
RECURSIVE OffsetOf(_)
OffsetOf(i) == IF i = 1 THEN 1 ELSE OffsetOf(i - 1) + Len(rendered[i - 1].text)

RECURSIVE JoinTexts(_)
JoinTexts(i) == IF i = 0 THEN <<>> ELSE JoinTexts(i - 1) \o rendered[i].text

NumRefs == IF rrefs.present THEN Len(rrefs.list) ELSE 0

\* Element i is the citation of the marker at q..e, resolved exactly when its
\* number is within 1..length(references).
CitesMarker(i, q, e) ==
    LET k == DecimalValue(rtext, q + 1, e - 1)
        el == rendered[i]
    IN  /\ OffsetOf(i) = q
        /\ el.text = SubSeq(rtext, q, e)
        /\ el.tag = "sup"
        /\ IF 1 <= k /\ k <= NumRefs
           THEN el.handler = "onReferenceClick" /\ el.ref = rrefs.list[k] /\ ~el.dimmed
           ELSE el.handler = "log" /\ el.ref = "" /\ el.dimmed

\* C6: in the rendering of a text block, every marker [k] of the text is a
\* superscript; it is bound to references[k-1] when 1 <= k <= n and is an
\* unresolved (dimmed) one otherwise, also when the list is empty or absent;
\* only markers become superscripts; the texts of the elements, concatenated,
\* are the original text; and a click calls onReferenceClick with the bound
\* reference for a resolved citation and never for an unresolved one.
C6_CitationResolution ==
    rendered # <<>> =>
        /\ JoinTexts(Len(rendered)) = rtext
        /\ \A q \in 1..Len(rtext), e \in 1..Len(rtext) :
              IsMarkerAt(rtext, q, e) => \E i \in 1..Len(rendered) : CitesMarker(i, q, e)
        /\ \A i \in 1..Len(rendered) :
              rendered[i].tag = "sup" =>
                  IsMarkerAt(rtext, OffsetOf(i), OffsetOf(i) + Len(rendered[i].text) - 1)
        /\ clicked.idx # 0 =>
              clicked.calls = IF rendered[clicked.idx].dimmed THEN <<>>
                              ELSE <<rendered[clicked.idx].ref>>

\* A rendering that holds a resolved citation and an unresolved one, the
\* unresolved one having been clicked.
C6_Witness ==
    /\ rendered # <<>>
    /\ \E i \in 1..Len(rendered) :
          rendered[i].tag = "sup" /\ rendered[i].handler = "onReferenceClick"
    /\ \E j \in 1..Len(rendered) :
          rendered[j].tag = "sup" /\ rendered[j].dimmed /\ clicked.idx = j

(***************************************************************************)
(* App (src/src/App.tsx)                                                   *)
(*                                                                         *)
(* Every action is one turn of the event loop: a handler from its call to  *)
(* its first await, or the continuation that runs when an awaited promise  *)
(* settles, up to the next await.  State setters are applied in the order  *)
(* they are called.  A handler reads the state of the last render, which   *)
(* is the current state when its turn begins.  The model follows one       *)
(* conversation: handleNewConversation and handleConversationSelect, which *)
(* replace the history by another conversation's, are left out.            *)
(***************************************************************************)
\* The values typed into the input box: empty, blank and a question.
InputTexts == {<<>>, <<" ">>, <<"q">>}

RECURSIVE TrimStart(_)
TrimStart(s) == IF s # <<>> /\ Head(s) = " " THEN TrimStart(Tail(s)) ELSE s

RECURSIVE TrimEnd(_)
TrimEnd(s) ==
    IF s # <<>> /\ s[Len(s)] = " " THEN TrimEnd(SubSeq(s, 1, Len(s) - 1)) ELSE s

\* String.prototype.trim
Trim(s) == TrimEnd(TrimStart(s))

ImageFiles == {"img1"}

AudioFiles == {"aud1"}

\* const maxSize = 50 * 1024 * 1024 (App.tsx:672)
MaxPdfSize == 52428800

PdfFiles ==
    { [name |-> "doc", size |-> MaxPdfSize],
      [name |-> "big", size |-> MaxPdfSize + 1] }

\* What the services return for a file.
ChunksOf(name) == <<[id |-> "c1", source |-> name]>>

TranscriptOf(file) == <<"words of ", file>>

Toast(type, about) == [type |-> type, about |-> about]

\* Array.prototype.filter / map on a sequence.
Filter(seq, Keep(_)) == SelectSeq(seq, Keep)

Map(seq, F(_)) == [i \in 1..Len(seq) |-> F(seq[i])]

RemoveAt(seq, i) == SubSeq(seq, 1, i - 1) \o SubSeq(seq, i + 1, Len(seq))

\* Date.now() read in a turn that starts at tick t.
ClockTicks == {t \in now..(now + 2) : t <= MaxNow}

\* ---- content blocks (App.tsx:225-275)
TextBlock(c) == [type |-> "text", content |-> c, transcription |-> <<>>]

ImageBlock(img) == [type |-> "image", content |-> <<img.file>>, transcription |-> <<>>]

AudioBlock(audio) == [type |-> "audio", content |-> <<>>, transcription |-> audio.transcription]

PdfBlock(pdf) == [type |-> "pdf", content |-> <<pdf.file.name>>, transcription |-> <<>>]

NoRefs == [present |-> FALSE, list |-> <<>>]

\* ---- the input box (InputBar's onChange = setInputValue, App.tsx:1091)
SetInputValue(v) ==
    /\ v # inputValue
    /\ inputValue' = v
    /\ UNCHANGED <<now, messages, isStreaming, toast, pendingImages, pendingPDFs,
                   pendingAudios, pdfProcessing, sends, jobs, imageReads,
                   audioRequests, sendResult, uploads>>
    /\ UNCHANGED <<decVars, refVars>>

\* ---- handleUploadImage (App.tsx:613-646): the call, up to readAsDataURL
HandleUploadImage(file) ==
    /\ ~isStreaming
    /\ uploads < MaxUploads
    /\ uploads' = uploads + 1
    /\ imageReads' = Append(imageReads, file)
    /\ UNCHANGED <<now, inputValue, messages, isStreaming, toast, pendingImages,
                   pendingPDFs, pendingAudios, pdfProcessing, sends, jobs,
                   audioRequests, sendResult>>
    /\ UNCHANGED <<decVars, refVars>>

\* reader.onload (App.tsx:622-643)
ImageLoaded(i, t) ==
    /\ i \in 1..Len(imageReads)
    /\ t \in ClockTicks
    /\ now' = t
    /\ pendingImages' = Append(pendingImages, [id |-> t, file |-> imageReads[i]])
    /\ toast' = Toast("info", imageReads[i])
    /\ imageReads' = RemoveAt(imageReads, i)
    /\ UNCHANGED <<inputValue, messages, isStreaming, pendingPDFs, pendingAudios,
                   pdfProcessing, sends, jobs, audioRequests, sendResult, uploads>>
    /\ UNCHANGED <<decVars, refVars>>

\* ---- handleUploadAudio (App.tsx:862-919): the call, up to the fetch
HandleUploadAudio(file, t) ==
    /\ uploads < MaxUploads
    /\ uploads' = uploads + 1
    /\ t \in ClockTicks
    /\ now' = t
    /\ toast' = Toast("info", file)
    /\ audioRequests' = Append(audioRequests, file)
    /\ UNCHANGED <<inputValue, messages, isStreaming, pendingImages, pendingPDFs,
                   pendingAudios, pdfProcessing, sends, jobs, imageReads, sendResult>>
    /\ UNCHANGED <<decVars, refVars>>

\* the response is ok (App.tsx:887-908)
AudioProcessed(i, t) ==
    /\ i \in 1..Len(audioRequests)
    /\ t \in ClockTicks
    /\ now' = t
    /\ pendingAudios' = Append(pendingAudios,
                               [id |-> t, file |-> audioRequests[i],
                                transcription |-> TranscriptOf(audioRequests[i]),
                                processed |-> TRUE])
    /\ toast' = Toast("success", audioRequests[i])
    /\ audioRequests' = RemoveAt(audioRequests, i)
    /\ UNCHANGED <<inputValue, messages, isStreaming, pendingImages, pendingPDFs,
                   pdfProcessing, sends, jobs, imageReads, sendResult, uploads>>
    /\ UNCHANGED <<decVars, refVars>>

AudioFailedButStaged(i, t) ==
    /\ i \in 1..Len(audioRequests)
    /\ t \in ClockTicks
    /\ now' = t
    /\ pendingAudios' = Append(pendingAudios,
                               [id |-> t, file |-> audioRequests[i],
                                transcription |-> <<>>, processed |-> FALSE])
    /\ toast' = Toast("error", audioRequests[i])
    /\ audioRequests' = RemoveAt(audioRequests, i)
    /\ UNCHANGED <<inputValue, messages, isStreaming, pendingImages, pendingPDFs,
                   pdfProcessing, sends, jobs, imageReads, sendResult, uploads>>
    /\ UNCHANGED <<decVars, refVars>>

\* the fetch rejects or the response is not ok (App.tsx:882-885, 910-918)
AudioFailed(i, t) ==
    /\ i \in 1..Len(audioRequests)
    /\ t \in ClockTicks
    /\ now' = t
    /\ toast' = Toast("error", audioRequests[i])
    /\ audioRequests' = RemoveAt(audioRequests, i)
    /\ UNCHANGED <<inputValue, messages, isStreaming, pendingImages, pendingPDFs,
                   pendingAudios, pdfProcessing, sends, jobs, imageReads, sendResult, uploads>>
    /\ UNCHANGED <<decVars, refVars>>

\* ---- onRemoveImage / onRemovePDF / onRemoveAudio (App.tsx:1099-1104)
\* A removal that empties the collection as soon as the id is staged.
WithoutAny(seq, id) ==
    IF \E n \in 1..Len(seq) : seq[n].id = id THEN <<>> ELSE seq

WithoutId(seq, id) == LET Keep(x) == x.id # id IN Filter(seq, Keep)

RemoveImage(id) ==
    /\ pendingImages' = WithoutId(pendingImages, id)
    /\ pendingImages' # pendingImages
    /\ UNCHANGED <<now, inputValue, messages, isStreaming, toast, pendingPDFs,
                   pendingAudios, pdfProcessing, sends, jobs, imageReads,
                   audioRequests, sendResult, uploads>>
    /\ UNCHANGED <<decVars, refVars>>

RemovePDF(id) ==
    /\ pendingPDFs' = WithoutId(pendingPDFs, id)
    /\ pendingPDFs' # pendingPDFs
    /\ UNCHANGED <<now, inputValue, messages, isStreaming, toast, pendingImages,
                   pendingAudios, pdfProcessing, sends, jobs, imageReads,
                   audioRequests, sendResult, uploads>>
    /\ UNCHANGED <<decVars, refVars>>

RemoveAudio(id) ==
    /\ pendingAudios' = WithoutId(pendingAudios, id)
    /\ pendingAudios' # pendingAudios
    /\ UNCHANGED <<now, inputValue, messages, isStreaming, toast, pendingImages,
                   pendingPDFs, pdfProcessing, sends, jobs, imageReads,
                   audioRequests, sendResult, uploads>>
    /\ UNCHANGED <<decVars, refVars>>

\* ---- handleStop (App.tsx:531-534); the Stop button exists only while
\* isStreaming (NavigationBar.tsx:346-354).
\* A stop that flips the flag of every message.
FlipMessage(msg) == [msg EXCEPT !.isStreaming = ~@]

StopMessage(msg) == [msg EXCEPT !.isStreaming = FALSE]

HandleStop ==
    /\ isStreaming
    /\ isStreaming' = FALSE
    /\ messages' = Map(messages, StopMessage)
    /\ UNCHANGED <<now, inputValue, toast, pendingImages, pendingPDFs, pendingAudios,
                   pdfProcessing, sends, jobs, imageReads, audioRequests, sendResult, uploads>>
    /\ UNCHANGED <<decVars, refVars>>

(***************************************************************************)
(* Document processing: handleUploadPDFNew and processPDF                  *)
(***************************************************************************)
StagedPDF(t, file) == [id |-> t, file |-> file, processed |-> FALSE, chunks |-> <<>>]

\* setPdfProcessing at the entry of processPDF (App.tsx:731-736)
ProcessingStarted == [isProcessing |-> TRUE, progress |-> 0]

\* setPdfProcessing in processPDF's finally (App.tsx:851-858)
ProcessingCleared == [isProcessing |-> FALSE, progress |-> 0]

\* One run of processPDF(pdf); owner 0 is handleUploadPDFNew, owner i > 0 is
\* the i-th handleSend.
Job(owner, pdf) == [owner |-> owner, pdfId |-> pdf.id, file |-> pdf.file.name]

\* A marking that stages the document again when its id is not staged.
MarkOrRestore(seq, id, chunks) ==
    IF \E n \in 1..Len(seq) : seq[n].id = id
    THEN LET Mark(p) == IF p.id = id
                        THEN [p EXCEPT !.processed = TRUE, !.chunks = chunks]
                        ELSE p
         IN  Map(seq, Mark)
    ELSE Append(seq, [id |-> id, file |-> [name |-> "doc", size |-> MaxPdfSize],
                      processed |-> TRUE, chunks |-> chunks])

\* A marking that does not look at the id.
MarkEvery(seq, id, chunks) ==
    LET Mark(p) == [p EXCEPT !.processed = TRUE, !.chunks = chunks]
    IN  Map(seq, Mark)

\* prev.map(p => p.id === id ? {...p, processed: true, chunks} : p)
MarkProcessed(seq, id, chunks) ==
    LET Mark(p) == IF p.id = id THEN [p EXCEPT !.processed = TRUE, !.chunks = chunks]
                   ELSE p
    IN  Map(seq, Mark)

\* The error message of handleSend's catch (App.tsx:363-372).
ErrorMsg(t, pdf) ==
    [id |-> t, role |-> "assistant",
     contentBlocks |-> <<TextBlock(<<"Error processing PDF document ", pdf.file.name>>)>>,
     references |-> NoRefs, isStreaming |-> FALSE]

RECURSIVE CollectSkipping(_, _, _)
CollectSkipping(docs, k, chunks) ==
    IF k > Len(docs) THEN [k |-> k, chunks |-> chunks]
    ELSE IF docs[k].processed /\ docs[k].chunks # <<>>
         THEN CollectSkipping(docs, k + 1, chunks)
         ELSE [k |-> k, chunks |-> chunks]

\* The loop over pdfDocuments (App.tsx:333-345) from document k on, up to the
\* first document that has to be processed now, or to the end.
RECURSIVE Collect(_, _, _)
Collect(docs, k, chunks) ==
    IF k > Len(docs) THEN [k |-> k, chunks |-> chunks]
    ELSE IF docs[k].processed /\ docs[k].chunks # <<>>
         THEN Collect(docs, k + 1, chunks \o docs[k].chunks)
         ELSE [k |-> k, chunks |-> chunks]

ExceedsLimitOrReachesIt(file) == file.size >= MaxPdfSize

\* file.size > maxSize (App.tsx:673)
ExceedsLimit(file) == file.size > MaxPdfSize

\* ---- handleUploadPDFNew (App.tsx:666-703): the call, up to the await
HandleUploadPDFNew(file, t) ==
    /\ ~(isStreaming \/ pdfProcessing.isProcessing)
    /\ uploads < MaxUploads
    /\ uploads' = uploads + 1
    /\ t \in ClockTicks
    /\ now' = t
    /\ IF ExceedsLimit(file)
       THEN /\ toast' = Toast("error", file.name)
            /\ UNCHANGED <<pendingPDFs, pdfProcessing, jobs>>
       ELSE /\ pendingPDFs' = Append(pendingPDFs, StagedPDF(t, file))
            /\ toast' = Toast("info", file.name)
            /\ pdfProcessing' = ProcessingStarted
            /\ jobs' = Append(jobs, Job(0, StagedPDF(t, file)))
    /\ UNCHANGED <<inputValue, messages, isStreaming, pendingImages, pendingAudios,
                   sends, imageReads, audioRequests, sendResult>>
    /\ UNCHANGED <<decVars, refVars>>

\* ---- a `progress` event (App.tsx:792-798)
PdfProgress(j) ==
    /\ j \in 1..Len(jobs)
    /\ pdfProcessing' = [isProcessing |-> TRUE, progress |-> 50]
    /\ pdfProcessing' # pdfProcessing
    /\ UNCHANGED <<now, inputValue, messages, isStreaming, toast, pendingImages,
                   pendingPDFs, pendingAudios, sends, jobs, imageReads,
                   audioRequests, sendResult, uploads>>
    /\ UNCHANGED <<decVars, refVars>>

\* processPDF returns or throws, and its caller runs on in the same turn:
\* handleUploadPDFNew (App.tsx:704-724) or handleSend (App.tsx:350-378, then
\* the loop again).  staged and shown are pendingPDFs and toast as processPDF
\* left them, chunks is what it returned (<<>> for undefined and for a throw).
AfterProcessPDF(j, staged, shown, chunks, threw, t) ==
    LET job  == jobs[j]
        rest == RemoveAt(jobs, j)
    IN  /\ IF job.owner = 0
           THEN /\ pendingPDFs' = IF chunks # <<>>
                                  THEN MarkProcessed(staged, job.pdfId, chunks)
                                  ELSE WithoutId(staged, job.pdfId)
                /\ toast' = IF chunks # <<>> THEN Toast("success", job.file) ELSE shown
                /\ now' = IF chunks # <<>> \/ threw THEN t ELSE now
                /\ pdfProcessing' = ProcessingCleared
                /\ jobs' = rest
                /\ UNCHANGED <<messages, sends>>
           ELSE LET s    == sends[job.owner]
                    pdf  == s.pdfDocuments[s.k]
                    nxt  == Collect(s.pdfDocuments, s.k + 1, s.pdf_chunks \o chunks)
                    more == nxt.k <= Len(s.pdfDocuments)
                IN  /\ pendingPDFs' = IF threw THEN WithoutId(staged, pdf.id) ELSE staged
                    /\ messages' = IF threw THEN Append(messages, ErrorMsg(t, pdf))
                                   ELSE messages
                    /\ toast' = shown
                    /\ now' = IF threw THEN t ELSE now
                    /\ sends' = [sends EXCEPT ![job.owner] =
                                   [s EXCEPT !.k = nxt.k, !.pdf_chunks = nxt.chunks,
                                             !.pc = IF more THEN "awaitPdf" ELSE "stream"]]
                    /\ jobs' = IF more
                               THEN Append(rest, Job(job.owner, s.pdfDocuments[nxt.k]))
                               ELSE rest
                    /\ pdfProcessing' = IF more THEN ProcessingStarted
                                        ELSE ProcessingCleared
        /\ UNCHANGED <<inputValue, isStreaming, pendingImages, pendingAudios,
                       imageReads, audioRequests, sendResult, uploads>>
        /\ UNCHANGED <<decVars, refVars>>

\* ---- a `result` event (App.tsx:799-807, 826-833); the server found chunks
\* in the file or none.
PdfResult(j, chunks, t) ==
    /\ j \in 1..Len(jobs)
    /\ t \in ClockTicks
    /\ chunks \in {ChunksOf(jobs[j].file), <<>>}
    /\ AfterProcessPDF(j, MarkProcessed(pendingPDFs, jobs[j].pdfId, chunks), toast,
                       chunks, FALSE, t)

\* ---- the stream is done and no `result` came (App.tsx:772, 821-839).  An
\* `error` event before the end is thrown and caught inside the line loop
\* (App.tsx:808-815) and changes nothing.
PdfStreamDone(j, sawError) ==
    /\ j \in 1..Len(jobs)
    /\ sawError \in BOOLEAN
    /\ AfterProcessPDF(j, pendingPDFs, toast, <<>>, FALSE, now)

\* ---- reading the file, the request or a read rejects, or the response has
\* no body (App.tsx:741-763, 771, 841-850)
PdfFailed(j, t) ==
    /\ j \in 1..Len(jobs)
    /\ t \in ClockTicks
    /\ AfterProcessPDF(j, pendingPDFs, Toast("error", jobs[j].file), <<>>, TRUE, t)

(***************************************************************************)
(* handleSend (App.tsx:219-528)                                            *)
(***************************************************************************)
\* The early return of handleSend (App.tsx:220).
SendGuardWithoutStreaming ==
    Trim(inputValue) = <<>> /\ pendingImages = <<>> /\ pendingAudios = <<>>

SendReturnsEarly ==
    (Trim(inputValue) = <<>> /\ pendingImages = <<>> /\ pendingAudios = <<>>)
        \/ isStreaming

\* contentBlocks of the user message (App.tsx:225-275)
UserBlocks ==
    (IF Trim(inputValue) # <<>> THEN <<TextBlock(inputValue)>> ELSE <<>>)
        \o Map(pendingImages, ImageBlock)
        \o Map(pendingAudios, AudioBlock)
        \o Map(pendingPDFs, PdfBlock)

UserMessage(t) ==
    [id |-> t, role |-> "user", contentBlocks |-> UserBlocks, references |-> NoRefs,
     isStreaming |-> FALSE]

\* The assistant placeholder (App.tsx:313-321).
AssistantMessage(id) ==
    [id |-> id, role |-> "assistant", contentBlocks |-> <<TextBlock(<<>>)>>,
     references |-> [present |-> TRUE, list |-> <<>>], isStreaming |-> TRUE]

\* history (App.tsx:292-301), from the messages of the render the handler
\* was created in.
HistoryEntry(msg) == [role |-> msg.role, content_blocks |-> msg.contentBlocks]

\* apiContentBlocks (App.tsx:386-419), from the pendingImages and
\* pendingAudios of the same render.
ApiContentBlocks == Map(pendingImages, ImageBlock) \o Map(pendingAudios, AudioBlock)

\* Two calls of handleSend are two gestures of the user with a stop or a
\* whole answer between them: the later one reads a clock value beyond the
\* ids the earlier ones made (Date.now() and Date.now() + 1).
HumanPaced(t) == \A i \in 1..Len(sends) : t > sends[i].assistantMessageId

\* ---- handleSend: the call, up to the first await (processPDF, or the
\* first frame of the chat stream)
HandleSend(t) ==
    /\ Len(sends) < MaxSends
    /\ t \in ClockTicks
    /\ HumanPaced(t)
    /\ IF SendReturnsEarly
       THEN /\ sendResult' = "ignored"
            /\ UNCHANGED <<now, inputValue, messages, isStreaming, pendingImages,
                           pendingAudios, pdfProcessing, sends, jobs>>
       ELSE LET first == Collect(pendingPDFs, 1, <<>>)
                more  == first.k <= Len(pendingPDFs)
                send  == [pc |-> IF more THEN "awaitPdf" ELSE "stream",
                          userMessageId |-> t,
                          assistantMessageId |-> t + 1,
                          currentInput |-> inputValue,
                          history |-> Map(messages, HistoryEntry),
                          content_blocks |-> ApiContentBlocks,
                          pdfDocuments |-> pendingPDFs,
                          k |-> first.k,
                          pdf_chunks |-> first.chunks,
                          fullContent |-> <<>>,
                          deltas |-> <<>>]
            IN  /\ sendResult' = "started"
                /\ now' = t
                /\ messages' = messages \o <<UserMessage(t), AssistantMessage(t + 1)>>
                /\ inputValue' = <<>>
                /\ pendingImages' = <<>>
                /\ pendingAudios' = <<>>
                /\ isStreaming' = TRUE
                /\ sends' = Append(sends, send)
                /\ jobs' = IF more
                           THEN Append(jobs, Job(Len(sends) + 1, pendingPDFs[first.k]))
                           ELSE jobs
                /\ pdfProcessing' = IF more THEN ProcessingStarted ELSE pdfProcessing
    /\ UNCHANGED <<toast, pendingPDFs, imageReads, audioRequests, uploads>>
    /\ UNCHANGED <<decVars, refVars>>

\* The body of the chat request of send i (App.tsx:449-456), once issued.
Request(i) ==
    [content |-> sends[i].currentInput, content_blocks |-> sends[i].content_blocks,
     pdf_chunks |-> sends[i].pdf_chunks, history |-> sends[i].history]

\* prev.map(msg => msg.id === id ? F(msg) : msg)
UpdateMessage(seq, id, F(_)) ==
    LET Upd(msg) == IF msg.id = id THEN F(msg) ELSE msg IN Map(seq, Upd)

\* fullContent += chunk.content (App.tsx:458)
Replaced(fullContent, content) == content

Accumulated(fullContent, content) == fullContent \o content

\* The content_delta frames the first n sends have received.
RECURSIVE DeltasReceived(_)
DeltasReceived(n) ==
    IF n = 0 THEN 0 ELSE Len(sends[n].deltas) + DeltasReceived(n - 1)

\* ---- a content_delta frame (App.tsx:457-468); content is "" for a frame
\* without text.
ContentDelta(i, content) ==
    /\ i \in 1..Len(sends)
    /\ sends[i].pc = "stream"
    /\ DeltasReceived(Len(sends)) < MaxDeltas
    /\ LET full == Accumulated(sends[i].fullContent, content)
           SetText(msg) == [msg EXCEPT !.contentBlocks = <<TextBlock(full)>>]
       IN  /\ sends' = [sends EXCEPT ![i].deltas = Append(@, content),
                                     ![i].fullContent =
                                         IF content # <<>> THEN full ELSE @]
           /\ messages' = IF content # <<>>
                          THEN UpdateMessage(messages, sends[i].assistantMessageId, SetText)
                          ELSE messages
    /\ UNCHANGED <<now, inputValue, isStreaming, toast, pendingImages, pendingPDFs,
                   pendingAudios, pdfProcessing, jobs, imageReads, audioRequests,
                   sendResult, uploads>>
    /\ UNCHANGED <<decVars, refVars>>

\* ---- a message_complete frame (App.tsx:469-490); references is <<>> for a
\* frame without the field.
MessageComplete(i, references) ==
    /\ i \in 1..Len(sends)
    /\ sends[i].pc = "stream"
    /\ LET Complete(msg) ==
               [msg EXCEPT !.isStreaming = FALSE,
                           !.references = [present |-> TRUE, list |-> references]]
       IN  messages' = UpdateMessage(messages, sends[i].assistantMessageId, Complete)
    /\ isStreaming' = FALSE
    /\ pendingPDFs' = <<>>
    /\ pendingAudios' = <<>>
    /\ sends' = [sends EXCEPT ![i].pc = "done"]
    /\ UNCHANGED <<now, inputValue, toast, pendingImages, pdfProcessing, jobs,
                   imageReads, audioRequests, sendResult, uploads>>
    /\ UNCHANGED <<decVars, refVars>>

\* ---- an error frame (App.tsx:491-509): sent by the server, or made by
\* streamChat from a failure of the request (chat.ts:158-165)
ErrorFrame(i, error) ==
    /\ i \in 1..Len(sends)
    /\ sends[i].pc = "stream"
    /\ LET Fail(msg) ==
               [msg EXCEPT !.contentBlocks =
                               <<TextBlock(<<"Sorry, an error occurred: ", error>>)>>,
                           !.isStreaming = FALSE]
       IN  messages' = UpdateMessage(messages, sends[i].assistantMessageId, Fail)
    /\ isStreaming' = FALSE
    /\ pendingPDFs' = <<>>
    /\ pendingAudios' = <<>>
    /\ sends' = [sends EXCEPT ![i].pc = "done"]
    /\ UNCHANGED <<now, inputValue, toast, pendingImages, pdfProcessing, jobs,
                   imageReads, audioRequests, sendResult, uploads>>
    /\ UNCHANGED <<decVars, refVars>>

\* ---- the generator returns without a terminal frame (chat.ts:128-131):
\* the for-await loop ends and handleSend returns (App.tsx:510, 528).
StreamEnded(i) ==
    /\ i \in 1..Len(sends)
    /\ sends[i].pc = "stream"
    /\ sends' = [sends EXCEPT ![i].pc = "done"]
    /\ UNCHANGED <<now, inputValue, messages, isStreaming, toast, pendingImages,
                   pendingPDFs, pendingAudios, pdfProcessing, jobs, imageReads,
                   audioRequests, sendResult, uploads>>
    /\ UNCHANGED <<decVars, refVars>>

(***************************************************************************)
(* The application: every handler, in every order the event loop allows    *)
(***************************************************************************)
DeltaContents == {<<>>, <<"a">>, <<"b">>}

ReferenceLists == {<<>>, <<"ref1">>}

ErrorCauses == {"server", "transport"}

InitApp == DecoderIdle /\ RefsIdle /\ AppIdle

Next ==
    \/ \E v \in InputTexts : SetInputValue(v)
    \/ \E t \in 0..MaxNow : HandleSend(t)
    \/ HandleStop
    \/ \E i \in 1..MaxSends, c \in DeltaContents : ContentDelta(i, c)
    \/ \E i \in 1..MaxSends, r \in ReferenceLists : MessageComplete(i, r)
    \/ \E i \in 1..MaxSends, e \in ErrorCauses : ErrorFrame(i, e)
    \/ \E i \in 1..MaxSends : StreamEnded(i)
    \/ \E f \in ImageFiles : HandleUploadImage(f)
    \/ \E i \in 1..MaxUploads, t \in 0..MaxNow : ImageLoaded(i, t)
    \/ \E f \in AudioFiles, t \in 0..MaxNow : HandleUploadAudio(f, t)
    \/ \E i \in 1..MaxUploads, t \in 0..MaxNow : AudioProcessed(i, t)
    \/ \E i \in 1..MaxUploads, t \in 0..MaxNow : AudioFailed(i, t)
    \/ \E f \in PdfFiles, t \in 0..MaxNow : HandleUploadPDFNew(f, t)
    \/ \E j \in 1..Len(jobs) : PdfProgress(j)
    \/ \E j \in 1..Len(jobs), c \in {<<>>} \cup {ChunksOf(f.name) : f \in PdfFiles},
          t \in 0..MaxNow : PdfResult(j, c, t)
    \/ \E j \in 1..Len(jobs), e \in BOOLEAN : PdfStreamDone(j, e)
    \/ \E j \in 1..Len(jobs), t \in 0..MaxNow : PdfFailed(j, t)
    \/ \E id \in 0..MaxNow : RemoveImage(id)
    \/ \E id \in 0..MaxNow : RemovePDF(id)
    \/ \E id \in 0..MaxNow : RemoveAudio(id)

Spec == InitApp /\ [][Next]_vars

(***************************************************************************)
(* Properties of the send cycle                                            *)
(***************************************************************************)
\* The messages of msgs that are the assistant placeholder of send i: the
\* one handleSend made with references and the id assistantMessageId.
PlaceholdersIn(msgs, i) ==
    {k \in 1..Len(msgs) : /\ msgs[k].id = sends[i].assistantMessageId
                          /\ msgs[k].role = "assistant"
                          /\ msgs[k].references.present}

\* Send i was stopped by handleStop and its stream is still being read.
StoppedInFlight(i) ==
    /\ sends[i].pc = "stream"
    /\ \A k \in PlaceholdersIn(messages, i) : ~messages[k].isStreaming

RECURSIVE ConcatAll(_)
ConcatAll(seqs) == IF seqs = <<>> THEN <<>> ELSE Head(seqs) \o ConcatAll(Tail(seqs))

SomethingToSend ==
    \/ Trim(inputValue) # <<>>
    \/ pendingImages # <<>>
    \/ pendingAudios # <<>>
    \/ pendingPDFs # <<>>

\* C3: a call of handleSend while the conversation is streaming changes
\* neither the length of the history nor a staged collection, and starts no
\* invocation that would issue a chat request.
C3_SendWhileStreamingIsNoOp ==
    [][(isStreaming /\ \E t \in 0..MaxNow : HandleSend(t)) =>
           /\ Len(messages') = Len(messages)
           /\ pendingImages' = pendingImages
           /\ pendingPDFs' = pendingPDFs
           /\ pendingAudios' = pendingAudios
           /\ sends' = sends
           /\ sendResult' = "ignored"]_vars

\* A call of handleSend with a question typed was ignored while the first
\* send was streaming.
C3_Witness ==
    /\ isStreaming
    /\ Len(sends) = 1
    /\ sends[1].pc = "stream"
    /\ sendResult = "ignored"
    /\ Trim(inputValue) # <<>>

\* C4 (as claimed): once handleStop has stopped a send whose stream is still
\* being read, no later step changes that send's assistant message: its
\* content blocks, references and streaming flag stay as they were.
C4_StoppedMessageFrozen ==
    [][\A i \in 1..Len(sends) :
           StoppedInFlight(i) =>
               \A k \in PlaceholdersIn(messages, i) : messages'[k] = messages[k]]_vars

\* C9 (as claimed): a call of handleSend starts a send cycle exactly when the
\* conversation is not streaming and there is something to send: text that
\* is not blank, or a staged image, audio or document.
C9_SendStartsIffSomethingToSend ==
    [][(\E t \in 0..MaxNow : HandleSend(t)) =>
           ((Len(sends') = Len(sends) + 1) <=> (~isStreaming /\ SomethingToSend))]_vars

\* C10: a content_delta frame leaves the placeholder of its send with exactly
\* one block, a text block holding the contents of all the content_delta
\* frames of that stream so far, joined in the order they came.
C10_DeltaAccumulates ==
    [][\A i \in 1..Len(sends) :
           (\E c \in DeltaContents : ContentDelta(i, c)) =>
               \A k \in PlaceholdersIn(messages', i) :
                   messages'[k].contentBlocks = <<TextBlock(ConcatAll(sends'[i].deltas))>>]_vars

\* Two different deltas have come and the placeholder shows both, in order.
C10_Witness ==
    \E i \in 1..Len(sends) :
        /\ sends[i].deltas = << <<"a">>, <<"b">> >>
        /\ PlaceholdersIn(messages, i) # {}
        /\ \A k \in PlaceholdersIn(messages, i) :
               messages[k].contentBlocks = <<TextBlock(<<"a", "b">>)>>

\* The user message of send i among msgs.
UserMessagesIn(msgs, i) ==
    {k \in 1..Len(msgs) : msgs[k].id = sends[i].userMessageId /\ msgs[k].role = "user"}

\* The blocks of what was typed and staged when send i was called.
SentBlocks(i) ==
    (IF Trim(sends[i].currentInput) # <<>> THEN <<TextBlock(sends[i].currentInput)>>
     ELSE <<>>)
        \o sends[i].content_blocks
        \o Map(sends[i].pdfDocuments, PdfBlock)

\* The read loop of send i takes a frame from its stream.
FrameArrives(i) ==
    \/ \E c \in DeltaContents : ContentDelta(i, c)
    \/ \E r \in ReferenceLists : MessageComplete(i, r)
    \/ \E e \in ErrorCauses : ErrorFrame(i, e)

\* processPDF, called by handleUploadPDFNew, ends without chunks: the stream
\* is done with no `result` (after an `error` event or not), or the request
\* fails.
UploadProcessingFails(j) ==
    /\ jobs[j].owner = 0
    /\ \/ \E e \in BOOLEAN : PdfStreamDone(j, e)
       \/ \E t \in 0..MaxNow : PdfFailed(j, t)

\* C5 (as claimed): when the processing that handleUploadPDFNew started for
\* a document fails, the document is no longer staged and an error
\* notification naming its file is on display.
C5_FailedUploadRemovedAndNotified ==
    [][\A j \in 1..Len(jobs) :
           UploadProcessingFails(j) =>
               /\ \A k \in 1..Len(pendingPDFs') : pendingPDFs'[k].id # jobs[j].pdfId
               /\ toast' = Toast("error", jobs[j].file)]_vars

\* C7 (as claimed): when a send takes its message_complete frame, the three
\* staged collections are empty and the user message of that send still has
\* the blocks of what was staged when it was sent.
C7_CompletionLeavesNothingStaged ==
    [][\A i \in 1..Len(sends) :
           (\E r \in ReferenceLists : MessageComplete(i, r)) =>
               /\ pendingImages' = <<>>
               /\ pendingPDFs' = <<>>
               /\ pendingAudios' = <<>>
               /\ UserMessagesIn(messages', i) # {}
               /\ \A k \in UserMessagesIn(messages', i) :
                      messages'[k].contentBlocks = SentBlocks(i)]_vars

\* C8 (as claimed): while a later send is streaming, a frame of an earlier
\* send's stream changes neither isStreaming, nor the history, nor a staged
\* collection.
C8_EarlierStreamIsSilent ==
    [][\A i, j \in 1..Len(sends) :
           (i < j /\ isStreaming /\ sends[j].pc # "done" /\ FrameArrives(i)) =>
               /\ isStreaming' = isStreaming
               /\ messages' = messages
               /\ pendingImages' = pendingImages
               /\ pendingPDFs' = pendingPDFs
               /\ pendingAudios' = pendingAudios]_vars

(***************************************************************************)
(* Properties of the terminal events of a send                             *)
(***************************************************************************)
\* The error block handleSend puts into the placeholder (App.tsx:498).
IsErrorBlock(block) ==
    /\ block.type = "text"
    /\ block.content # <<>>
    /\ Head(block.content) = "Sorry, an error occurred: "

\* C11 (as claimed): a message_complete frame gives the placeholder of its
\* send streaming=false and the references of the frame, leaves its text as
\* it was, ends the streaming state of the conversation and leaves all three
\* staged collections empty.
C11_CompletionEffects ==
    [][\A i \in 1..Len(sends) : \A r \in ReferenceLists :
           MessageComplete(i, r) =>
               /\ \A k \in PlaceholdersIn(messages, i) :
                      /\ ~messages'[k].isStreaming
                      /\ messages'[k].references = [present |-> TRUE, list |-> r]
                      /\ messages'[k].contentBlocks = messages[k].contentBlocks
               /\ ~isStreaming'
               /\ pendingImages' = <<>>
               /\ pendingPDFs' = <<>>
               /\ pendingAudios' = <<>>]_vars

\* C12 (as claimed): an error frame, sent by the server or made by streamChat
\* from a failed request, replaces the placeholder's content by an error
\* block, clears streaming on the message and on the conversation, leaves
\* the staged collections empty and raises an error notification.
C12_FailureEffects ==
    [][\A i \in 1..Len(sends) : \A e \in ErrorCauses :
           ErrorFrame(i, e) =>
               /\ \A k \in PlaceholdersIn(messages, i) :
                      /\ Len(messages'[k].contentBlocks) = 1
                      /\ IsErrorBlock(messages'[k].contentBlocks[1])
                      /\ ~messages'[k].isStreaming
               /\ ~isStreaming'
               /\ pendingImages' = <<>>
               /\ pendingPDFs' = <<>>
               /\ pendingAudios' = <<>>
               /\ toast' # toast
               /\ toast'.type = "error"]_vars

\* C13 (as claimed): when the stream of a send ends with no terminal frame
\* while the conversation is streaming, the turn that sees the end, the last
\* one of that handleSend, ends the streaming state and leaves the
\* placeholder not streaming and with an error block.
C13_SilentEndIsFailure ==
    [][\A i \in 1..Len(sends) :
           (isStreaming /\ StreamEnded(i)) =>
               /\ ~isStreaming'
               /\ \A k \in PlaceholdersIn(messages, i) :
                      /\ ~messages'[k].isStreaming
                      /\ Len(messages'[k].contentBlocks) = 1
                      /\ IsErrorBlock(messages'[k].contentBlocks[1])]_vars

(***************************************************************************)
(* Properties of staging and of documents sent along                       *)
(***************************************************************************)
\* Some chunk of chunks was made from the file called name.
HasChunksOf(chunks, name) == \E k \in 1..Len(chunks) : chunks[k].source = name

\* The history has the error message of handleSend about the file.
ErrorMessageNames(msgs, name) ==
    \E k \in 1..Len(msgs) :
        /\ msgs[k].role = "assistant"
        /\ msgs[k].contentBlocks = <<TextBlock(<<"Error processing PDF document ", name>>)>>

\* C14 (as claimed): once a send has issued its chat request, every document
\* that was staged when it started has chunks in the request's pdf_chunks or
\* is named by an error message in the history.
C14_NoDocumentSilentlyDropped ==
    \A i \in 1..Len(sends) :
        sends[i].pc # "awaitPdf" =>
            \A d \in 1..Len(sends[i].pdfDocuments) :
                \/ HasChunksOf(Request(i).pdf_chunks, sends[i].pdfDocuments[d].file.name)
                \/ ErrorMessageNames(messages, sends[i].pdfDocuments[d].file.name)

C17_AudioStagedOnlyOnSuccess ==
    [][/\ \A k \in 1..Len(pendingAudios') :
              (\A m \in 1..Len(pendingAudios) : pendingAudios[m] # pendingAudios'[k]) =>
                  /\ pendingAudios'[k].processed
                  /\ pendingAudios'[k].transcription = TranscriptOf(pendingAudios'[k].file)
                  /\ \E i \in 1..Len(audioRequests) :
                         /\ audioRequests[i] = pendingAudios'[k].file
                         /\ audioRequests' = RemoveAt(audioRequests, i)
                  /\ toast' = Toast("success", pendingAudios'[k].file)
       /\ \A i \in 1..Len(audioRequests) : \A t \in 0..MaxNow :
              AudioFailed(i, t) =>
                  /\ pendingAudios' = pendingAudios
                  /\ pendingImages' = pendingImages
                  /\ pendingPDFs' = pendingPDFs
                  /\ toast' = Toast("error", audioRequests[i])]_vars

\* The transcription request of the audio file failed: nothing is staged and
\* the error notification names the file.
C17_Witness ==
    /\ uploads = 1
    /\ audioRequests = <<>>
    /\ pendingAudios = <<>>
    /\ toast = Toast("error", "aud1")

\* A step takes the last entry out of a staged collection.
Emptied(before, after) == before # <<>> /\ after = <<>>

\* A send takes its message_complete or its error frame.
TerminalFrame ==
    \E i \in 1..Len(sends) :
        \/ \E r \in ReferenceLists : MessageComplete(i, r)
        \/ \E e \in ErrorCauses : ErrorFrame(i, e)

\* The user removes an entry, or a run of processPDF returns.
RemovedOrProcessed ==
    \/ \E id \in 0..MaxNow : RemoveImage(id) \/ RemovePDF(id) \/ RemoveAudio(id)
    \/ \E j \in 1..Len(jobs) :
           \/ \E e \in BOOLEAN : PdfStreamDone(j, e)
           \/ \E t \in 0..MaxNow : PdfFailed(j, t) \/ PdfResult(j, <<>>, t)

\* C18 (as claimed): apart from removal by the user and failed processing,
\* a staged collection is emptied only by a terminal frame of a send, and
\* then all three are empty: the call of handleSend empties none.
C18_ClearedOnlyAtTerminal ==
    [][(\/ Emptied(pendingImages, pendingImages')
        \/ Emptied(pendingPDFs, pendingPDFs')
        \/ Emptied(pendingAudios, pendingAudios')) =>
           \/ RemovedOrProcessed
           \/ /\ TerminalFrame
              /\ pendingImages' = <<>>
              /\ pendingPDFs' = <<>>
              /\ pendingAudios' = <<>>]_vars

(***************************************************************************)
(* The end of a chat stream                                                *)
(***************************************************************************)
TerminalTypes == {"message_complete", "error"}

\* C19: a message_complete or error frame is the last frame streamChat
\* yields: no frame is yielded behind it from the same chunk, and once it is
\* yielded no later chunk adds a frame.
C19_NothingAfterTerminal ==
    [][/\ \A k \in 1..(Len(yielded') - 1) : yielded'[k].type \notin TerminalTypes
       /\ (yielded # <<>> /\ yielded[Len(yielded)].type \in TerminalTypes) =>
              yielded' = yielded]_vars

\* The generator has returned on a terminal frame although the body holds a
\* valid data line behind the terminal line.
C19_Witness ==
    /\ gen = "done"
    /\ yielded # <<>>
    /\ yielded[Len(yielded)].type \in TerminalTypes
    /\ \E i, j \in 1..Len(WireLines) :
           /\ i < j
           /\ IsFrameLine(WireLines[i])
           /\ FrameOfLine(WireLines[i]).type \in TerminalTypes
           /\ IsFrameLine(WireLines[j])

(***************************************************************************)
(* A send that carries two documents                                       *)
(*                                                                         *)
(* The application from the state in which a first document has been       *)
(* uploaded at tick 0, its processing has delivered chunks, and an image   *)
(* has been staged at tick 1; uploads counts the files handed over after   *)
(* that.                                                                   *)
(***************************************************************************)
PaperFile == [name |-> "paper", size |-> 1024]

FigureFile == "figure"

InitDocs ==
    /\ DecoderIdle
    /\ RefsIdle
    /\ now = 1
    /\ inputValue = <<>>
    /\ messages = <<>>
    /\ isStreaming = FALSE
    /\ toast = Toast("info", FigureFile)
    /\ pendingImages = <<[id |-> 1, file |-> FigureFile]>>
    /\ pendingPDFs = <<[id |-> 0, file |-> PaperFile, processed |-> TRUE,
                        chunks |-> ChunksOf("paper")]>>
    /\ pendingAudios = <<>>
    /\ pdfProcessing = ProcessingCleared
    /\ sends = <<>>
    /\ jobs = <<>>
    /\ imageReads = <<>>
    /\ audioRequests = <<>>
    /\ sendResult = "none"
    /\ uploads = 0

SpecDocs == InitDocs /\ [][Next]_vars

\* The processing handleSend started for a document ends without chunks: the
\* request fails, or the stream is done with no `result`.
SendProcessingFails(j) ==
    /\ jobs[j].owner > 0
    /\ \/ \E t \in 0..MaxNow : PdfFailed(j, t)
       \/ \E e \in BOOLEAN : PdfStreamDone(j, e)

\* pdf.processed && pdf.chunks && pdf.chunks.length > 0 (App.tsx:337)
Preprocessed(doc) == doc.processed /\ doc.chunks # <<>>

\* The chunks the staged documents carry themselves, in staging order
\* (App.tsx:337-343).
RECURSIVE ProcessedChunks(_)
ProcessedChunks(docs) ==
    IF docs = <<>>
    THEN <<>>
    ELSE (IF Preprocessed(Head(docs)) THEN Head(docs).chunks ELSE <<>>)
             \o ProcessedChunks(Tail(docs))

AllPreprocessed(docs) == \A d \in 1..Len(docs) : Preprocessed(docs[d])

\* The loop of handleSend leaves the document at before.k, which it was
\* waiting for, without taking a chunk for it, takes the chunks of the
\* preprocessed documents that follow and stops at the next document that
\* is not, or at the end of the list, where the request is issued.
SkipsTo(before, after) ==
    LET docs == before.pdfDocuments
        k == before.k
        n == after.k
    IN  /\ after.pdfDocuments = docs
        /\ n \in (k + 1)..(Len(docs) + 1)
        /\ AllPreprocessed(SubSeq(docs, k + 1, n - 1))
        /\ after.pdf_chunks
               = before.pdf_chunks \o ProcessedChunks(SubSeq(docs, k + 1, n - 1))
        /\ AllPreprocessed(SubSeq(docs, 1, k - 1))
               => before.pdf_chunks = ProcessedChunks(SubSeq(docs, 1, k - 1))
        /\ IF n = Len(docs) + 1
           THEN after.pc = "stream"
           ELSE after.pc = "awaitPdf" /\ ~Preprocessed(docs[n])
        /\ after.currentInput = before.currentInput
        /\ after.content_blocks = before.content_blocks

\* The request of send i carries the text and the image and audio blocks the
\* user message of the send shows, and the chunks the loop collected.
RequestCarriesTheRest(i) ==
    /\ sends[i].pc = "stream"
    /\ UserMessagesIn(messages, i) # {}
    /\ \A u \in UserMessagesIn(messages, i) :
           /\ SelectSeq(messages[u].contentBlocks, LAMBDA b : b.type = "text")
                  = (IF Trim(Request(i).content) # <<>>
                     THEN <<TextBlock(Request(i).content)>>
                     ELSE <<>>)
           /\ SelectSeq(messages[u].contentBlocks,
                        LAMBDA b : b.type \in {"image", "audio"})
                  = Request(i).content_blocks
    /\ Request(i).pdf_chunks = sends[i].pdf_chunks

\* C15: when the processing handleSend started for a document fails, the
\* send goes on: it processes the next unprocessed document or issues the
\* chat request, which carries the text, the image and audio blocks and the
\* chunks of the other documents in staging order, and no chunk of the
\* failed document.
C15_FailedDocumentSkipped ==
    [][\A j \in 1..Len(jobs) :
           SendProcessingFails(j) =>
               \A i \in {jobs[j].owner} :
                   /\ SkipsTo(sends[i], sends'[i])
                   /\ \/ RequestCarriesTheRest(i)'
                      \/ /\ sends'[i].pc = "awaitPdf"
                         /\ \E n \in 1..Len(jobs') : jobs'[n].owner = i]_vars

\* A question was sent with an image and two documents staged, the first
\* document with chunks and the second still unprocessed; processing the second failed, the error
\* message names it and the request carries the chunks of the first only.
C15_Witness ==
    \E i \in 1..Len(sends) :
        /\ sends[i].pc = "stream"
        /\ Len(sends[i].pdfDocuments) = 2
        /\ sends[i].pdfDocuments[1].processed
        /\ ~sends[i].pdfDocuments[2].processed
        /\ ErrorMessageNames(messages, sends[i].pdfDocuments[2].file.name)
        /\ Request(i).content = <<"q">>
        /\ Request(i).content_blocks = <<ImageBlock([id |-> 1, file |-> FigureFile])>>
        /\ Request(i).pdf_chunks = sends[i].pdfDocuments[1].chunks
        /\ Request(i).pdf_chunks # <<>>

\* ---- C20: removal of a staged attachment by id ----

\* The ids a staged attachment can carry: the clock values of the model.
StagedIds == 0..MaxNow

\* after is before without its entries of this id: the entries of any other
\* id are kept, in their order.
RemovedExactly(before, after, id) ==
    after = SelectSeq(before, LAMBDA x : x.id # id)

IsStaged(seq, id) == \E n \in 1..Len(seq) : seq[n].id = id

\* What the three removal handlers make of the collection for every id.
RemovalIsIdempotent(seq) ==
    \A id \in StagedIds :
        /\ RemovedExactly(seq, WithoutId(seq, id), id)
        /\ ~IsStaged(seq, id) => WithoutId(seq, id) = seq
        /\ WithoutId(WithoutId(seq, id), id) = WithoutId(seq, id)

\* C20: removing a staged attachment by id deletes exactly the entries with
\* that id from its collection and leaves every other entry and the other two
\* collections unchanged; removing an id that is not staged changes nothing,
\* and removing the same id twice equals removing it once.
C20_RemovalById ==
    /\ [](/\ RemovalIsIdempotent(pendingImages)
          /\ RemovalIsIdempotent(pendingPDFs)
          /\ RemovalIsIdempotent(pendingAudios))
    /\ [][\A id \in StagedIds :
              /\ RemoveImage(id) =>
                     /\ IsStaged(pendingImages, id)
                     /\ RemovedExactly(pendingImages, pendingImages', id)
                     /\ UNCHANGED <<pendingPDFs, pendingAudios>>
              /\ RemovePDF(id) =>
                     /\ IsStaged(pendingPDFs, id)
                     /\ RemovedExactly(pendingPDFs, pendingPDFs', id)
                     /\ UNCHANGED <<pendingImages, pendingAudios>>
              /\ RemoveAudio(id) =>
                     /\ IsStaged(pendingAudios, id)
                     /\ RemovedExactly(pendingAudios, pendingAudios', id)
                     /\ UNCHANGED <<pendingImages, pendingPDFs>>]_vars

\* Two documents were staged and the first was removed before anything was
\* sent: the second is all that is left.
C20_Witness ==
    /\ sends = <<>>
    /\ uploads = 1
    /\ Len(pendingPDFs) = 1
    /\ pendingPDFs[1].file.name = "doc"
    /\ ~IsStaged(pendingPDFs, 0)

(***************************************************************************)
(* processPDF: the read loop over the response of /api/pdf/process         *)
(* (App.tsx:765-839).  wire, rpos, buffer, gen and midCut are those of one *)
(* run of processPDF; yielded holds the events the run has acted on.       *)
(***************************************************************************)
DoneSentinel == <<"[", "D", "O", "N", "E", "]">>

\* JSON.parse(data) and the reads of parsed.type (App.tsx:789-808).
PdfJsonParse(p) ==
    IF Len(p) = 3 /\ p[1] = "{" /\ p[3] = "}"
    THEN CASE p[2] = "p" -> [ok |-> TRUE, data |-> [type |-> "progress", content |-> ""]]
           [] p[2] = "r" -> [ok |-> TRUE, data |-> [type |-> "result", content |-> ""]]
           [] p[2] = "e" -> [ok |-> TRUE, data |-> [type |-> "error", content |-> ""]]
           [] p[2] = "u" -> [ok |-> TRUE, data |-> [type |-> "unknown", content |-> ""]]
           [] OTHER      -> [ok |-> FALSE, data |-> NoFrame]
    ELSE [ok |-> FALSE, data |-> NoFrame]

\* The branches of App.tsx:792-810: progress is shown, result returns, error
\* is thrown into the catch of App.tsx:811-815; any other type is passed over.
PdfActedOn(f) == f.type \in {"progress", "result", "error"}

\* One iteration of `for (const line of lines)` (App.tsx:782-816): the event
\* acted on, and whether processPDF returns.
PdfHandleLine(line) ==
    IF StartsWith(line, DataPrefix)
    THEN LET data == Trim(Slice(line, 6))
         IN  IF data = DoneSentinel THEN [yield |-> <<>>, ret |-> FALSE]
             ELSE IF data = <<>> THEN [yield |-> <<>>, ret |-> FALSE]
             ELSE LET r == PdfJsonParse(data)
                  IN  IF r.ok /\ PdfActedOn(r.data)
                      THEN [yield |-> <<r.data>>, ret |-> r.data.type = "result"]
                      ELSE [yield |-> <<>>, ret |-> FALSE]
    ELSE [yield |-> <<>>, ret |-> FALSE]

RECURSIVE PdfLineLoop(_, _)
PdfLineLoop(lines, out) ==
    IF lines = <<>> THEN [frames |-> out, returned |-> FALSE]
    ELSE LET h == PdfHandleLine(Head(lines))
         IN  IF h.ret THEN [frames |-> out \o h.yield, returned |-> TRUE]
             ELSE PdfLineLoop(Tail(lines), out \o h.yield)

\* The body of the while loop for one chunk (App.tsx:774-817).
PdfStreamChunk(buf, chunk) ==
    LET lines == Split(buf \o chunk, NL)
        r     == PdfLineLoop(CompleteLines(lines), <<>>)
    IN  [buffer |-> Residual(lines), frames |-> r.frames, returned |-> r.returned]

\* "Process final buffer data" (App.tsx:821-839): of the residual only a
\* `result` is acted on.
PdfFinalBuffer(buf) ==
    IF Trim(buf) # <<>> /\ StartsWith(buf, DataPrefix)
    THEN LET data == Trim(Slice(buf, 6))
         IN  IF data # DoneSentinel /\ data # <<>>
             THEN LET r == PdfJsonParse(data)
                  IN  IF r.ok /\ r.data.type = "result" THEN <<r.data>> ELSE <<>>
             ELSE <<>>
    ELSE <<>>

\* The lines the processing server can write (without their newline).
PdfLineKinds ==
    { DataPrefix \o <<"{", "p", "}">>,        \* progress
      DataPrefix \o <<"{", "r", "}">>,        \* result
      DataPrefix \o <<"{", "e", "}">>,        \* error
      DataPrefix \o <<"{", "r">>,             \* truncated JSON
      DataPrefix \o DoneSentinel,             \* the end sentinel
      DataPrefix \o <<" ">>,                  \* blank payload
      <<>> }                                  \* the blank line between records

RECURSIVE PdfLineSeqs(_)
PdfLineSeqs(n) ==
    IF n = 0 THEN {<<>>}
    ELSE LET shorter == PdfLineSeqs(n - 1)
         IN  shorter \cup {Append(ls, k) : ls \in {x \in shorter : Len(x) = n - 1},
                                           k \in PdfLineKinds}

InitPdfDecoder ==
    /\ RefsIdle
    /\ AppIdle
    /\ \E ls \in PdfLineSeqs(MaxLines), t \in BOOLEAN : wire = TextOf(ls, t)
    /\ rpos = 0
    /\ buffer = <<>>
    /\ yielded = <<>>
    /\ gen = "reading"
    /\ midCut = FALSE

\* reader2.read() resolves with a chunk of n characters (App.tsx:771-817).
PdfRead(n) ==
    /\ gen = "reading"
    /\ rpos + n <= Len(wire)
    /\ LET r == PdfStreamChunk(buffer, SubSeq(wire, rpos + 1, rpos + n))
       IN  /\ buffer' = r.buffer
           /\ yielded' = yielded \o r.frames
           /\ gen' = IF r.returned THEN "done" ELSE "reading"
    /\ rpos' = rpos + n
    /\ midCut' = (midCut \/ (rpos + n < Len(wire) /\ wire[rpos + n] # NL))
    /\ UNCHANGED wire
    /\ UNCHANGED <<refVars, appVars>>

\* reader2.read() resolves with done (App.tsx:772): the loop breaks and the
\* residual buffer is looked at (App.tsx:821-839).
PdfReadDone ==
    /\ gen = "reading"
    /\ rpos = Len(wire)
    /\ yielded' = yielded \o PdfFinalBuffer(buffer)
    /\ gen' = "done"
    /\ UNCHANGED <<wire, rpos, buffer, midCut>>
    /\ UNCHANGED <<refVars, appVars>>

NextPdfDecoder ==
    \/ \E n \in 1..MaxChunk : PdfRead(n)
    \/ PdfReadDone

SpecPdfDecoder == InitPdfDecoder /\ [][NextPdfDecoder]_vars

\* ---- C21: the end sentinel ----

\* All lines of the body, the last one whether or not a newline follows it.
AllWireLines ==
    LET parts == Split(wire, NL)
    IN  IF parts[Len(parts)] = <<>> THEN CompleteLines(parts) ELSE parts

IsSentinelLine(l) == IsDataLine(l) /\ Trim(Slice(l, 6)) = DoneSentinel

\* What a decoder that stops parsing at the sentinel acts on: the events of
\* the lines before the first sentinel line.
RECURSIVE UpToSentinel(_)
UpToSentinel(lines) ==
    IF lines = <<>> \/ IsSentinelLine(Head(lines)) THEN <<>>
    ELSE <<Head(lines)>> \o UpToSentinel(Tail(lines))

IsPrefixOf(a, b) == Len(a) <= Len(b) /\ SubSeq(b, 1, Len(a)) = a

\* C21: a line whose payload is the end sentinel is never acted on as an
\* event, and no line behind it is parsed: what a finished run of processPDF
\* has acted on are events of the lines before the first sentinel line, in
\* their order.
C21_SentinelEndsParsing ==
    gen = "done" =>
        IsPrefixOf(yielded, PdfLineLoop(UpToSentinel(AllWireLines), <<>>).frames)

\* ---- C22: the residual buffer at the end of the stream ----

\* C22: when the stream ends with a residual buffer that starts with the
\* data prefix, the residual is parsed and handled like a line: the end of
\* streamChat's read loop yields the frame the residual carries.
C22_ResidualIsFinalFrame ==
    [][ReadDone => yielded' = yielded \o HandleLine(buffer).yield]_vars

\* ---- C23: the `result` event of processPDF ----

\* after is before with the documents of this id processed and holding
\* chunks, and every other document as it was.
ResultApplied(before, after, id, chunks) ==
    /\ Len(after) = Len(before)
    /\ \A n \in 1..Len(before) :
           after[n] = IF before[n].id = id
                      THEN [before[n] EXCEPT !.processed = TRUE, !.chunks = chunks]
                      ELSE before[n]

\* The result chunk lists of the model.
ResultChunks == {<<>>} \cup {ChunksOf(f.name) : f \in PdfFiles}

\* C23: when processPDF receives a `result` event, exactly the staged
\* document with the id of the run becomes processed with the delivered
\* chunks, every other staged document, image and audio is unchanged, and
\* pdfProcessing is inactive when processPDF has returned (unless the send
\* that called it has started processing its next document).  The upload
\* handler then removes a document whose result held no chunk.
C23_ResultMarksDocument ==
    [][\A j \in 1..Len(jobs), c \in ResultChunks, t \in 0..MaxNow :
           PdfResult(j, c, t) =>
               \A id \in {jobs[j].pdfId} : \A owner \in {jobs[j].owner} :
                   /\ \/ ResultApplied(pendingPDFs, pendingPDFs', id, c)
                      \/ /\ owner = 0 /\ c = <<>>
                         /\ RemovedExactly(pendingPDFs, pendingPDFs', id)
                   /\ UNCHANGED <<pendingImages, pendingAudios>>
                   /\ \/ pdfProcessing' = ProcessingCleared
                      \/ /\ owner > 0
                         /\ pdfProcessing' = ProcessingStarted
                         /\ Len(jobs') = Len(jobs)
                         /\ jobs'[Len(jobs')].owner = owner]_vars

\* The result for the second staged document has arrived: it is processed
\* with its own chunks, the first document and the image are as they were
\* and nothing is being processed.
C23_Witness ==
    /\ Len(pendingPDFs) = 2
    /\ pendingPDFs[1] = [id |-> 0, file |-> PaperFile, processed |-> TRUE,
                         chunks |-> ChunksOf("paper")]
    /\ pendingPDFs[2].file.name = "doc"
    /\ pendingPDFs[2].processed
    /\ pendingPDFs[2].chunks = ChunksOf("doc")
    /\ pendingImages = <<[id |-> 1, file |-> FigureFile]>>
    /\ pdfProcessing = ProcessingCleared
    /\ jobs = <<>>

\* ---- C24: document-processing requests in flight ----

\* C24: at most one run of processPDF is in flight at any time, and
\* pdfProcessing.isProcessing is true exactly while one is.
C24_OneProcessingAtATime ==
    /\ Len(jobs) <= 1
    /\ pdfProcessing.isProcessing <=> jobs # <<>>

\* ---- C25: the streaming flag of a message ----

\* The step appends the two messages of a send that passed the guard, the
\* second being its placeholder.
AppendsPlaceholder(n) ==
    /\ Len(sends') = Len(sends) + 1
    /\ Len(messages') = Len(messages) + 2
    /\ n = Len(messages')
    /\ messages'[n].role = "assistant"
    /\ messages'[n].id = sends'[Len(sends')].assistantMessageId

\* C25: the streaming flag of a message is monotone: a message that is not
\* streaming never streams again whatever happens (delta, terminal frame,
\* stop, later send), so the flag falls at most once, and a message starts
\* with the flag set only as the assistant placeholder of a send.
C25_StreamingFlagMonotone ==
    [][/\ Len(messages') >= Len(messages)
       /\ \A n \in 1..Len(messages) :
              ~messages[n].isStreaming => ~messages'[n].isStreaming
       /\ \A n \in (Len(messages) + 1)..Len(messages') :
              messages'[n].isStreaming => AppendsPlaceholder(n)]_vars

\* The placeholder of the first send has stopped streaming and the second
\* send has made its own, which streams.
C25_Witness ==
    /\ Len(sends) = 2
    /\ \E m, n \in 1..Len(messages) :
           /\ m < n
           /\ messages[m].id = sends[1].assistantMessageId
           /\ messages[m].role = "assistant"
           /\ ~messages[m].isStreaming
           /\ messages[n].id = sends[2].assistantMessageId
           /\ messages[n].isStreaming

\* ---- C26: ids made from the clock ----

DistinctIds(seq) == \A m, n \in 1..Len(seq) : m # n => seq[m].id # seq[n].id

\* C26: at every moment the ids within each staged collection are pairwise
\* distinct and the ids of the messages are pairwise distinct.
C26_IdsAreDistinct ==
    /\ DistinctIds(pendingImages)
    /\ DistinctIds(pendingPDFs)
    /\ DistinctIds(pendingAudios)
    /\ DistinctIds(messages)

\* ---- C27: how a staged attachment leaves the staging collections ----

Range(seq) == {seq[n] : n \in 1..Len(seq)}

\* The staged entries of a collection that the step takes out of it: those
\* whose id is no longer staged.
Leaving(before, after) ==
    {e \in Range(before) : \A n \in 1..Len(after) : after[n].id # e.id}

\* Send i took the entry into its outgoing message: an image or audio as a
\* content block, a document in its list of documents.
CarriedBy(snd, e, kind) ==
    CASE kind = "image" -> \E b \in 1..Len(snd.content_blocks) :
                               snd.content_blocks[b] = ImageBlock(e)
      [] kind = "audio" -> \E b \in 1..Len(snd.content_blocks) :
                               snd.content_blocks[b] = AudioBlock(e)
      [] kind = "pdf"   -> \E d \in 1..Len(snd.pdfDocuments) :
                               /\ snd.pdfDocuments[d].id = e.id
                               /\ snd.pdfDocuments[d].file = e.file

\* The step is one of the ways in which the entry may leave: the send that
\* starts in this step carries it, the user removes its id, its own
\* processing ends without chunks, or the send that carried it takes its
\* terminal frame.
LeavesProperly(e, kind) ==
    \/ /\ Len(sends') = Len(sends) + 1
       /\ CarriedBy(sends'[Len(sends')], e, kind)
    \/ /\ kind = "image" /\ RemoveImage(e.id)
    \/ /\ kind = "pdf" /\ RemovePDF(e.id)
    \/ /\ kind = "audio" /\ RemoveAudio(e.id)
    \/ /\ kind = "pdf"
       /\ \E j \in 1..Len(jobs) :
              /\ jobs[j].pdfId = e.id
              /\ \/ \E b \in BOOLEAN : PdfStreamDone(j, b)
                 \/ \E t \in 0..MaxNow : PdfFailed(j, t) \/ PdfResult(j, <<>>, t)
    \/ \E i \in 1..Len(sends) :
           /\ CarriedBy(sends[i], e, kind)
           /\ \/ \E r \in ReferenceLists : MessageComplete(i, r)
              \/ \E c \in ErrorCauses : ErrorFrame(i, c)

\* C27: a staged attachment leaves the staging collections only with the
\* send that put it into its message, by removal of its id, or when its own
\* processing or the send that carried it fails; so what was staged while
\* an earlier stream was in progress outlives the end of that stream.
C27_LeavesOnlyWhenSentRemovedOrFailed ==
    [][/\ \A e \in Leaving(pendingImages, pendingImages') : LeavesProperly(e, "image")
       /\ \A e \in Leaving(pendingPDFs, pendingPDFs') : LeavesProperly(e, "pdf")
       /\ \A e \in Leaving(pendingAudios, pendingAudios') : LeavesProperly(e, "audio")]_vars

\* ---- C28: a document removed while its processing is in flight ----

\* Run j of processPDF returns or throws.
ProcessingEnds(j) ==
    \/ \E c \in ResultChunks, t \in 0..MaxNow : PdfResult(j, c, t)
    \/ \E e \in BOOLEAN : PdfStreamDone(j, e)
    \/ \E t \in 0..MaxNow : PdfFailed(j, t)

\* C28: a document that left pendingPDFs while a run of processPDF for it
\* was in flight is not put back: when that run ends, with a result or with
\* a failure, pendingPDFs stays as it is, without the document and with
\* every other document unaltered.
C28_RemovedDocumentStaysRemoved ==
    [][\A j \in 1..Len(jobs) :
           (~IsStaged(pendingPDFs, jobs[j].pdfId) /\ ProcessingEnds(j)) =>
               pendingPDFs' = pendingPDFs]_vars

\* The upload of a second document has ended with a result and the success
\* toast, the document is not staged, and the first document is staged as
\* before.
C28_Witness ==
    /\ toast = Toast("success", "doc")
    /\ jobs = <<>>
    /\ sends = <<>>
    /\ pendingPDFs = <<[id |-> 0, file |-> PaperFile, processed |-> TRUE,
                        chunks |-> ChunksOf("paper")]>>

(***************************************************************************)
(* ChatAPI.streamChat as a whole (chat.ts:59-166): the request, the read   *)
(* loop and the catch around both.  gen is "request" until fetch has       *)
(* answered, "reading" in the loop, "done" after a return, "failed" after  *)
(* the catch has yielded its event, "raised" if an exception left the      *)
(* generator.                                                              *)
(***************************************************************************)
\* The event the catch yields (chat.ts:160-164).
ErrorEvent == [type |-> "error", content |-> ""]

\* A catch that passes the exception on to the consumer.
Rethrown == [yield |-> <<>>, gen |-> "raised"]

\* catch (error) { yield {type: 'error', ...} } (chat.ts:158-165)
Caught == [yield |-> <<ErrorEvent>>, gen |-> "failed"]

\* fetch rejects, the status is not ok, or the response has no body
\* (chat.ts:90-118).
RequestFailures == {"network", "status", "nobody"}

InitStream ==
    /\ RefsIdle
    /\ AppIdle
    /\ \E ls \in LineSeqs(MaxLines), t \in BOOLEAN : wire = TextOf(ls, t)
    /\ rpos = 0
    /\ buffer = <<>>
    /\ yielded = <<>>
    /\ gen = "request"
    /\ midCut = FALSE

\* fetch resolves with an ok response that has a body (chat.ts:90-123).
RequestOk ==
    /\ gen = "request"
    /\ gen' = "reading"
    /\ UNCHANGED <<wire, rpos, buffer, yielded, midCut>>
    /\ UNCHANGED <<refVars, appVars>>

\* The request fails before the first read (chat.ts:90-118, 158-165).
RequestFails(cause) ==
    /\ gen = "request"
    /\ cause \in RequestFailures
    /\ yielded' = yielded \o Caught.yield
    /\ gen' = Caught.gen
    /\ UNCHANGED <<wire, rpos, buffer, midCut>>
    /\ UNCHANGED <<refVars, appVars>>

\* reader.read() rejects (chat.ts:126, 158-165).
ReadFails ==
    /\ gen = "reading"
    /\ yielded' = yielded \o Caught.yield
    /\ gen' = Caught.gen
    /\ UNCHANGED <<wire, rpos, buffer, midCut>>
    /\ UNCHANGED <<refVars, appVars>>

NextStream ==
    \/ RequestOk
    \/ \E c \in RequestFailures : RequestFails(c)
    \/ \E n \in 1..MaxChunk : Read(n)
    \/ ReadDone
    \/ ReadFails

SpecStream == InitStream /\ [][NextStream]_vars

\* ---- C29: failures of streamChat ----

TerminalCount(frames) ==
    Cardinality({k \in 1..Len(frames) : frames[k].type \in TerminalTypes})

\* C29: streamChat never raises to its consumer: a failure of the request
\* or of a read becomes exactly one yielded error event, which is the last
\* thing the run yields, and no run yields more than one terminal event.
C29_FailureIsOneErrorEvent ==
    /\ [](/\ gen # "raised"
          /\ TerminalCount(yielded) <= 1
          /\ gen = "failed" =>
                 /\ yielded # <<>>
                 /\ yielded[Len(yielded)] = ErrorEvent
                 /\ TerminalCount(yielded) = 1)
    /\ [][/\ ((\E c \in RequestFailures : RequestFails(c)) \/ ReadFails) =>
                 /\ yielded' = Append(yielded, ErrorEvent)
                 /\ gen' = "failed"
          /\ gen \in {"failed", "done"} => yielded' = yielded]_vars

\* A read failed after the run had yielded a frame: the error event is the
\* second thing it yielded, and the last.
C29_Witness ==
    /\ gen = "failed"
    /\ Len(yielded) >= 2
    /\ rpos > 0

\* ---- C30: the conversation flag and the message flags ----

\* C30: in every reachable state, when the conversation is not streaming no
\* message of the history is streaming.
C30_NoStreamingMessageWhenIdle ==
    ~isStreaming => \A n \in 1..Len(messages) : ~messages[n].isStreaming

====
